---- MODULE Spec2Model ----
(***************************************************************************)
(* CountMeIn bot (src/main.py): the poll store, the per-conversation       *)
(* session kept in memcache, and the webhook handlers (text messages,      *)
(* callback queries, inline queries) as request threads that interleave    *)
(* at their datastore / memcache calls.                                    *)
(*                                                                         *)
(* Text (message text, callback data, session values, uids) is a sequence  *)
(* of one-character strings, so that startswith / split / int() / format   *)
(* are computed and not assumed.  Python's None and '' are both <<>>       *)
(* where the code only tests truthiness; an optional entity is <<>> or     *)
(* <<entity>>.                                                             *)
(***************************************************************************)
EXTENDS Integers, Sequences, FiniteSets, TLC

\* ------------------------------------------------------------------ bounds

\* Polls created in a run: the datastore hands out the ids 1..MaxPolls.
MaxPolls == 1

\* The ids a request can name: those of the polls a run creates or starts
\* with, and one more.
PollIds == 1..(MaxPolls + 1)

\* Request threads that can be in flight at the same time.
Handlers == {1, 2}

\* Telegram users; a private chat's id is its user's id.
Users == {1, 2}

\* ------------------------------------------------------------ python text

Min(a, b) == IF a < b THEN a ELSE b

DigitChars == <<"0", "1", "2", "3", "4", "5", "6", "7", "8", "9">>

IsDigit(c) == \E k \in 1..10 : DigitChars[k] = c

DigitVal(c) == (CHOOSE k \in 1..10 : DigitChars[k] = c) - 1

\* str.isdigit(): non-empty and digits only.
isdigit(s) == Len(s) > 0 /\ \A k \in 1..Len(s) : IsDigit(s[k])

RECURSIVE DigitsVal(_)
DigitsVal(s) ==
    IF s = <<>> THEN 0
    ELSE 10 * DigitsVal(SubSeq(s, 1, Len(s) - 1)) + DigitVal(s[Len(s)])

RECURSIVE lstrip(_)
lstrip(s) == IF s # <<>> /\ s[1] = " " THEN lstrip(Tail(s)) ELSE s

RECURSIVE rstrip(_)
rstrip(s) ==
    IF s # <<>> /\ s[Len(s)] = " " THEN rstrip(SubSeq(s, 1, Len(s) - 1)) ELSE s

strip(s) == rstrip(lstrip(s))

\* int(s): surrounding blanks and one sign are accepted, then digits only.
IntBody(s) ==
    LET t == strip(s)
    IN  IF t # <<>> /\ t[1] \in {"+", "-"} THEN Tail(t) ELSE t

\* int(s) does not raise ValueError.
int_ok(s) == isdigit(IntBody(s))

int(s) ==
    LET t == strip(s)
    IN  IF t # <<>> /\ t[1] = "-" THEN 0 - DigitsVal(IntBody(s))
        ELSE DigitsVal(IntBody(s))

RECURSIVE NatToStr(_)
NatToStr(n) ==
    IF n < 10 THEN <<DigitChars[n + 1]>>
    ELSE NatToStr(n \div 10) \o <<DigitChars[(n % 10) + 1]>>

\* str(n) and '{}'.format(n) of an integer.
str(n) == IF n < 0 THEN <<"-">> \o NatToStr(0 - n) ELSE NatToStr(n)

startswith(s, p) == Len(s) >= Len(p) /\ SubSeq(s, 1, Len(p)) = p

\* s[k:] of a python string (0-based k).
slice_from(s, k) == SubSeq(s, k + 1, Len(s))

\* Length of the first blank-free run of s.
RECURSIVE WordLen(_)
WordLen(s) == IF s = <<>> \/ s[1] = " " THEN 0 ELSE 1 + WordLen(Tail(s))

\* s.split(): the blank-separated words of s.
RECURSIVE split(_)
split(s) ==
    LET t == lstrip(s)
    IN  IF t = <<>> THEN <<>>
        ELSE <<SubSeq(t, 1, WordLen(t))>> \o split(SubSeq(t, WordLen(t) + 1, Len(t)))

LowerChar(c) ==
    CASE c = "A" -> "a"
      [] c = "B" -> "b"
      [] c = "C" -> "c"
      [] OTHER -> c

\* unicode.lower() on the alphabet the model's titles use.
lower(s) == [k \in 1..Len(s) |-> LowerChar(s[k])]

\* util.uslice(s, start, end): the slice s[start:end] by characters.
uslice(s, start, end) == SubSeq(s, start + 1, Min(end, Len(s)))

\* Length of Poll.title_short (and of the friendly id).
TitleShortLen == 512

\* ------------------------------------------------------------- data model

\* OrderedDict.get(key) is truthy: the values stored are 2-tuples, never falsy.
people_get(people, key) == \E k \in 1..Len(people) : people[k].uid = key

\* OrderedDict.pop(key, None): the other entries keep their order.
people_pop(people, key) ==
    LET Keep(e) == e.uid # key
    IN  SelectSeq(people, Keep)

\* (mutant) a new key goes first.
people_set_first(people, key, value) == <<[uid |-> key, name |-> value]>> \o people

\* OrderedDict[key] = value: a new key goes last, a known key keeps its place.
people_set(people, key, value) ==
    IF people_get(people, key)
    THEN [k \in 1..Len(people) |->
             IF people[k].uid = key THEN [uid |-> key, name |-> value] ELSE people[k]]
    ELSE Append(people, [uid |-> key, name |-> value])

\* Option(title, people=OrderedDict()): the default is one object, made when
\* the class is defined and handed to every call that gives no people.
Option(title, people) == [title |-> title, people |-> people]

\* Option.toggle: the option after the call and the status it returns.
Option_toggle(option, uid, first_name, last_name) ==
    IF people_get(option.people, str(uid))
    THEN [option |-> [option EXCEPT !.people = people_pop(@, str(uid))],
          status |-> <<"Your name was {} {}!", "removed from", option.title>>]
    ELSE [option |-> [option EXCEPT
                        !.people = people_set(@, str(uid), <<first_name, last_name>>)],
          status |-> <<"Your name was {} {}!", "added to", option.title>>]

\* Poll.new: the entity before it is put (put sets the id and created).
\* option.people.keys()
keys(people) == [k \in 1..Len(people) |-> people[k].uid]

\* util.flatten: the lists of a list, one after the other.
RECURSIVE flatten(_)
flatten(lists) == IF lists = <<>> THEN <<>> ELSE Head(lists) \o flatten(Tail(lists))

\* set(list)
set_of(list) == {list[k] : k \in 1..Len(list)}

generate_respondents_summary_total(poll) ==
    LET num_respondents ==
            Len(flatten([k \in 1..Len(poll.options) |-> keys(poll.options[k].people)]))
    IN  IF num_respondents = 0 THEN <<"Nobody responded">>
        ELSE IF num_respondents = 1 THEN <<"1 person responded">>
        ELSE str(num_respondents) \o <<" people responded">>

\* Poll.generate_respondents_summary
generate_respondents_summary(poll) ==
    LET all_uids_by_option == [k \in 1..Len(poll.options) |-> keys(poll.options[k].people)]
        all_uids == flatten(all_uids_by_option)
        num_respondents == Cardinality(set_of(all_uids))
    IN  IF num_respondents = 0 THEN <<"Nobody responded">>
        ELSE IF num_respondents = 1 THEN <<"1 person responded">>
        ELSE str(num_respondents) \o <<" people responded">>

Poll_new_swapped(admin_uid, title) ==
    [admin_uid |-> title, title |-> admin_uid, title_short |-> uslice(admin_uid, 0, TitleShortLen),
     options |-> <<>>, created |-> 0]

Poll_new(admin_uid, title) ==
    [admin_uid   |-> admin_uid,
     title       |-> title,
     title_short |-> lower(uslice(title, 0, TitleShortLen)),
     options     |-> <<>>,
     created     |-> 0]

POLL_DELETED == <<"Sorry, this poll has been deleted">>
INVALID_OPTION == <<"Sorry, that's an invalid option">>

\* list[i] of python: the 1-based position read, 0 when it raises IndexError.
PyIndex(seq, i) ==
    IF i >= 0 /\ i < Len(seq) THEN i + 1
    ELSE IF i < 0 /\ Len(seq) + i >= 0 THEN Len(seq) + i + 1
    ELSE 0

\* Which option Poll.toggle's bounds test lets through: opt_id >= len is refused.
toggle_refuses(poll, opt_id) == opt_id >= Len(poll.options)

\* The body of Poll.toggle on the entity the transaction read (<<>>: absent):
\* what it returns, whether it puts, and whether it raises (IndexError).
Poll_toggle_body(got, opt_id, uid, first_name, last_name) ==
    IF got = <<>>
    THEN [poll |-> <<>>, status |-> POLL_DELETED, put |-> FALSE, raised |-> FALSE,
          at |-> 0]
    ELSE IF toggle_refuses(got[1], opt_id)
    THEN [poll |-> <<>>, status |-> INVALID_OPTION, put |-> FALSE, raised |-> FALSE,
          at |-> 0]
    ELSE IF PyIndex(got[1].options, opt_id) = 0
    THEN [poll |-> <<>>, status |-> <<>>, put |-> FALSE, raised |-> TRUE, at |-> 0]
    ELSE LET k == PyIndex(got[1].options, opt_id)
             t == Option_toggle(got[1].options[k], uid, first_name, last_name)
         IN  [poll   |-> <<[got[1] EXCEPT !.options[k] = t.option]>>,
              status |-> t.status, put |-> TRUE, raised |-> FALSE, at |-> k]

\* ------------------------------------------------------------------ state

VARIABLES
    polls,      \* the datastore's Poll entities: id -> entity, for the ids present
    nextId,     \* the next id the datastore allocates (also the creation clock)
    session,    \* memcache: conversation id -> session value (<<>>: no value)
    h,          \* the request threads: handler slot -> its position and locals
    odd,        \* history: <<poll id, option position, voter>> toggled an odd
                \* number of times by committed Poll.toggle calls
    sizeFinal,  \* history: poll id -> the option counts at which the poll was
                \* delivered because of its size
    finalized,  \* history: ids of the polls whose creation dialogue has ended
                \* (delivered by /done or by size, and the session cleared)
    views,      \* history: <<chat id, poll id>> of the admin views enqueued,
                \* whose buttons can be pressed from then on
    default_people  \* the OrderedDict that is the default of Option's people

vars == <<polls, nextId, session, h, odd, sizeFinal, finalized, views, default_people>>

\* Session values.
START == <<"S", "T", "A", "R", "T">>
OPT_PREFIX == <<"O", "P", "T", " ">>

\* 'OPT {}'.format(poll_id)
OPT(poll_id) == OPT_PREFIX \o str(poll_id)

\* Commands.
CMD_START == <<"/", "s", "t", "a", "r", "t">>
CMD_DONE == <<"/", "d", "o", "n", "e">>
CMD_POLLS == <<"/", "p", "o", "l", "l", "s">>
CMD_VIEW == <<"/", "v", "i", "e", "w", "_">>

\* A slot no request runs in.
Idle ==
    [pc |-> "idle", kind |-> "", uid |-> 0, name |-> <<"", "">>, text |-> <<>>,
     imid |-> "", chat |-> 0, exc |-> <<>>, rt |-> <<>>, pid |-> 0, opt |-> 0, poll |-> <<>>,
     out |-> <<>>, answers |-> <<>>, ret |-> <<>>, result |-> ""]

\* Poll.get_by_id: <<>> when the id is absent.
get_by_id(poll_id) == IF poll_id \in DOMAIN polls THEN <<polls[poll_id]>> ELSE <<>>

\* entity.put() of a poll that has its id: the whole entity is written.
put(store, poll_id, poll) ==
    [p \in DOMAIN store \cup {poll_id} |-> IF p = poll_id THEN poll ELSE store[p]]

\* key.delete()
delete(store, poll_id) == [p \in DOMAIN store \ {poll_id} |-> store[p]]

\* taskqueue.add of one outbound request, as the handler's own record of it.
telegram_request(r, method, chat_id, message_id, inline_message_id, text, markup, poll_id) ==
    [r EXCEPT !.out = Append(@,
        [method |-> method, chat_id |-> chat_id, message_id |-> message_id,
         inline_message_id |-> inline_message_id, text |-> text,
         reply_markup |-> markup, poll |-> poll_id, listed |-> <<>>])]

send_message(r, chat_id, text) ==
    telegram_request(r, "send_message", chat_id, 0, "", text, "", 0)

\* deliver_poll: the rendered poll with the admin buttons, to the admin's chat.
deliver_poll(r, chat_id, poll_id) ==
    telegram_request(r, "send_message", chat_id, 0, "", "render_text",
                     "build_admin_buttons", poll_id)

Delivered(r, poll_id) ==
    \E k \in 1..Len(r.out) :
        r.out[k].reply_markup = "build_admin_buttons" /\ r.out[k].poll = poll_id
        /\ r.out[k].method = "send_message"

Sent(r, text) ==
    \E k \in 1..Len(r.out) : r.out[k].method = "send_message" /\ r.out[k].text = text

\* The request ends: normally, or in handle_exception's abort(500), which
\* replaces whatever the response held.  Its locals are gone; what it was
\* given and what it produced stay until the response is out.
Finish(r) == [r EXCEPT !.pc = "done", !.result = "ok", !.rt = <<>>, !.poll = <<>>]
Abort500(r) ==
    [r EXCEPT !.pc = "done", !.result = "500", !.answers = <<>>, !.rt = <<>>,
              !.poll = <<>>]

\* The ids of a set of polls, newest first (order(-Poll.created)).
RECURSIVE NewestFirst(_)
NewestFirst(ids) ==
    IF ids = {} THEN <<>>
    ELSE LET top == CHOOSE p \in ids : \A q \in ids : polls[q].created <= polls[p].created
         IN  <<top>> \o NewestFirst(ids \ {top})

\* query.fetch(50)
FetchLimit == 50
fetch(seq, limit) == SubSeq(seq, 1, Min(limit, Len(seq)))

\* --------------------------------------------------------- handle_message

\* A poll is delivered once it holds this many options.
MaxOptions == 10

\* Creating requests that read START and have not put their poll yet.
Creating == {j \in Handlers : h[j].pc = "create_put"}

view_allowed_any(poll, uid) == poll # <<>>

\* '/view_<id>': the poll is there (poll.admin_uid does not raise) and the
\* caller is its admin.
view_allowed(poll, uid) == poll # <<>> /\ poll[1].admin_uid = uid

\* The request's first part: User.populate_by_id, memcache.get and the branch
\* on the text.  The branches that touch nothing but the session and the
\* outbox end here; the others continue at their first datastore call.
handle_message(i, chat, text, over_quota) ==
    /\ h[i].pc = "idle"
    /\ LET uid == str(chat)
           responding_to == session[chat]
           r == [Idle EXCEPT !.kind = "msg", !.uid = chat, !.text = text,
                             !.rt = responding_to]
           is_opt == responding_to # <<>> /\ startswith(responding_to, OPT_PREFIX)
           view == get_by_id(int(slice_from(text, 6)))
       IN
       IF over_quota \/ text = <<>>
       THEN \* OverQuotaError is swallowed by handle_exception; no text: return
            /\ h' = [h EXCEPT ![i] = Finish([r EXCEPT !.rt = <<>>])]
            /\ UNCHANGED <<polls, nextId, session, odd, sizeFinal, finalized, views, default_people>>
       ELSE IF startswith(text, CMD_START)
       THEN /\ h' = [h EXCEPT ![i] = Finish(send_message(r, chat, "NEW_POLL"))]
            /\ session' = [session EXCEPT ![chat] = START]
            /\ UNCHANGED <<polls, nextId, odd, sizeFinal, finalized, views, default_people>>
       ELSE IF text = CMD_DONE
       THEN /\ h' = [h EXCEPT ![i] =
                       IF is_opt
                       THEN [r EXCEPT !.pc = "done_get",
                                      !.pid = int(slice_from(responding_to, 4))]
                       ELSE Finish(send_message(r, chat, "HELP"))]
            /\ UNCHANGED <<polls, nextId, session, odd, sizeFinal, finalized, views, default_people>>
       ELSE IF text = CMD_POLLS
       THEN /\ LET mine == {p \in DOMAIN polls : polls[p].admin_uid = uid}
                   recent_polls == fetch(NewestFirst(mine), FetchLimit)
                   sent == send_message(r, chat, "Your polls")
               IN  h' = [h EXCEPT ![i] =
                           Finish([sent EXCEPT !.out[Len(sent.out)].listed = recent_polls])]
            /\ session' = [session EXCEPT ![chat] = <<>>]
            /\ UNCHANGED <<polls, nextId, odd, sizeFinal, finalized, views, default_people>>
       ELSE IF startswith(text, CMD_VIEW)
       THEN \* any exception (ValueError, None.admin_uid, not the admin): HELP
            /\ h' = [h EXCEPT ![i] =
                       IF /\ int_ok(slice_from(text, 6))
                          /\ view_allowed(view, uid)
                       THEN [deliver_poll(r, chat, int(slice_from(text, 6)))
                                EXCEPT !.pc = "clear",
                                       !.pid = int(slice_from(text, 6))]
                       ELSE Finish(send_message(r, chat, "HELP"))]
            /\ views' = IF h'[i].pc = "clear"
                        THEN views \cup {<<chat, h'[i].pid>>} ELSE views
            /\ UNCHANGED <<polls, nextId, session, odd, sizeFinal, finalized, default_people>>
       ELSE IF responding_to = <<>>
       THEN /\ h' = [h EXCEPT ![i] = Finish(send_message(r, chat, "HELP"))]
            /\ UNCHANGED <<polls, nextId, session, odd, sizeFinal, finalized, views, default_people>>
       ELSE IF responding_to = START
       THEN /\ nextId + Cardinality(Creating) <= MaxPolls
            /\ h' = [h EXCEPT ![i] = [r EXCEPT !.pc = "create_put"]]
            /\ UNCHANGED <<polls, nextId, session, odd, sizeFinal, finalized, views, default_people>>
       ELSE IF is_opt
       THEN /\ h' = [h EXCEPT ![i] =
                       [r EXCEPT !.pc = "opt_get",
                                 !.pid = int(slice_from(responding_to, 4))]]
            /\ UNCHANGED <<polls, nextId, session, odd, sizeFinal, finalized, views, default_people>>
       ELSE \* a session value that is neither START nor OPT
            /\ h' = [h EXCEPT ![i] = Finish(send_message(r, chat, "HELP"))]
            /\ session' = [session EXCEPT ![chat] = <<>>]
            /\ UNCHANGED <<polls, nextId, odd, sizeFinal, finalized, views, default_people>>

option_count_any(option_count) == option_count >= 0

\* '/done' delivers a poll that has an option.
option_count_positive(option_count) == option_count > 0

\* '/done' in OPT: Poll.get_by_id, then the delivery or the notice.
handle_message_done(i) ==
    /\ h[i].pc = "done_get"
    /\ LET r == h[i]
           poll == get_by_id(r.pid)
       IN  IF poll = <<>>
           THEN \* len(None.options): AttributeError
                h' = [h EXCEPT ![i] = Abort500(r)]
           ELSE IF option_count_positive(Len(poll[1].options))
           THEN h' = [h EXCEPT ![i] =
                         [deliver_poll(send_message(r, r.uid, "DONE"), r.uid, r.pid)
                             EXCEPT !.pc = "clear"]]
           ELSE h' = [h EXCEPT ![i] = Finish(send_message(r, r.uid, "PREMATURE_DONE"))]
    /\ views' = IF h'[i].pc = "clear" THEN views \cup {<<h[i].uid, h[i].pid>>} ELSE views
    /\ UNCHANGED <<polls, nextId, session, odd, sizeFinal, finalized, default_people>>

\* memcache.delete(uid), the last call of the delivering branches.
handle_message_clear(i) ==
    /\ h[i].pc = "clear"
    /\ session' = [session EXCEPT ![h[i].uid] = <<>>]
    /\ h' = [h EXCEPT ![i] = Finish(h[i])]
    /\ finalized' = IF startswith(h[i].text, CMD_VIEW) THEN finalized
                    ELSE finalized \cup {h[i].pid}
    /\ UNCHANGED <<polls, nextId, odd, sizeFinal, views, default_people>>

\* Text in START: Poll.new and put.
handle_message_create(i) ==
    /\ h[i].pc = "create_put"
    /\ nextId <= MaxPolls
    /\ LET r == h[i]
           new_poll == [Poll_new(str(r.uid), r.text) EXCEPT !.created = nextId]
       IN  /\ polls' = put(polls, nextId, new_poll)
           /\ h' = [h EXCEPT ![i] =
                      [send_message(r, r.uid, "FIRST_OPTION")
                          EXCEPT !.pc = "create_set", !.pid = nextId]]
    /\ nextId' = nextId + 1
    /\ UNCHANGED <<session, odd, sizeFinal, finalized, views, default_people>>

\* Text in START: memcache.set(uid, 'OPT <id>').
handle_message_create_set(i) ==
    /\ h[i].pc = "create_set"
    /\ session' = [session EXCEPT ![h[i].uid] = OPT(h[i].pid)]
    /\ h' = [h EXCEPT ![i] = Finish(h[i])]
    /\ UNCHANGED <<polls, nextId, odd, sizeFinal, finalized, views, default_people>>

\* Text in OPT: Poll.get_by_id.
handle_message_opt_get(i) ==
    /\ h[i].pc = "opt_get"
    /\ LET r == h[i]
           poll == get_by_id(r.pid)
       IN  h' = [h EXCEPT ![i] =
                   IF poll = <<>>
                   THEN Abort500(r)  \* None.options: AttributeError
                   ELSE [r EXCEPT !.pc = "opt_put", !.poll = poll]]
    /\ UNCHANGED <<polls, nextId, session, odd, sizeFinal, finalized, views, default_people>>

option_count_exceeded(option_count) == option_count > MaxOptions

\* Whether the poll is complete after an append.
option_count_reached(option_count) == ~(option_count < MaxOptions)

\* Text in OPT: append to the entity read, put it, and prompt or deliver.
handle_message_opt_put(i) ==
    /\ h[i].pc = "opt_put"
    /\ LET r == h[i]
           poll == [r.poll[1] EXCEPT !.options = Append(@, Option(r.text, default_people))]
           option_count == Len(poll.options)
       IN  /\ polls' = put(polls, r.pid, poll)
           /\ IF option_count_reached(option_count)
              THEN /\ h' = [h EXCEPT ![i] =
                              [deliver_poll(send_message(r, r.uid, "DONE"), r.uid, r.pid)
                                  EXCEPT !.pc = "clear", !.poll = <<poll>>]]
                   /\ sizeFinal' = [sizeFinal EXCEPT ![r.pid] = Append(@, option_count)]
              ELSE /\ h' = [h EXCEPT ![i] =
                              Finish([send_message(r, r.uid, "NEXT_OPTION")
                                         EXCEPT !.poll = <<poll>>])]
                   /\ UNCHANGED sizeFinal
    /\ views' = IF h'[i].pc = "clear" THEN views \cup {<<h[i].uid, h[i].pid>>} ELSE views
    /\ UNCHANGED <<nextId, session, odd, finalized, default_people>>

\* The session value expires (memcache.set(..., time=3600)) or is evicted.
expire(chat) ==
    /\ session[chat] # <<>>
    /\ session' = [session EXCEPT ![chat] = <<>>]
    /\ UNCHANGED <<polls, nextId, h, odd, sizeFinal, finalized, views, default_people>>

\* The response is out; the thread takes the next request.
respond(i) ==
    /\ h[i].pc = "done"
    /\ h' = [h EXCEPT ![i] = Idle]
    /\ UNCHANGED <<polls, nextId, session, odd, sizeFinal, finalized, views, default_people>>

\* -------------------------------------------------- handle_callback_query

ERROR_OVER_QUOTA == <<"Sorry, CountMeIn Bot is overloaded right now. Please try again later!">>
INVALID_DATA == <<"Invalid data. This attempt will be logged!">>

\* from_user.first_name / last_name of the model's users.
NameOf(uid) == IF uid = 1 THEN <<"Sam", "">> ELSE <<"Ann", "Lee">>

\* answer_callback_query: the answer is written to the webhook's response.
answer_callback_query(r, status) == [r EXCEPT !.answers = Append(@, status)]

\* (mutant) the message is always addressed by chat_id + message_id.
edit_origin_chat(r, method, text, markup, poll_id) ==
    telegram_request(r, method, r.chat, 1, "", text, markup, poll_id)

\* edit_message_reply_markup / edit_message_text on the message the button is
\* on: by inline_message_id in inline context, by chat_id + message_id in chat.
edit_origin(r, method, text, markup, poll_id) ==
    IF r.imid # ""
    THEN telegram_request(r, method, 0, 0, r.imid, text, markup, poll_id)
    ELSE telegram_request(r, method, r.chat, 1, "", text, markup, poll_id)

\* data.split(); int(params[0]); params[1] does not raise.
data_ok(data) == Len(split(data)) >= 2 /\ int_ok(split(data)[1])

\* (mutant) the context is not looked at.
chat_action_any(action, imid, name) == action = name

\* The chat-only actions.
chat_action(action, imid, name) == action = name /\ imid = ""

ACT_REFRESH == <<"r", "e", "f", "r", "e", "s", "h">>
ACT_VOTE == <<"v", "o", "t", "e">>
ACT_DELETE == <<"d", "e", "l", "e", "t", "e">>
ACT_BACK == <<"b", "a", "c", "k">>

over_quota_edits(r) ==
    Finish(answer_callback_query(
        telegram_request(r, "edit_message_reply_markup", 0, 0, r.imid, "", "", 0),
        ERROR_OVER_QUOTA))

\* except OverQuotaError: answer with the overload notice and return.
over_quota_answer(r) == Finish(answer_callback_query(r, ERROR_OVER_QUOTA))

\* The request up to and including Poll.get_by_id and the actions that only
\* enqueue; a vote continues in Poll.toggle, a delete at key.delete().
handle_callback_query(i, uid, chat_id, data, imid, over_quota) ==
    /\ h[i].pc = "idle"
    /\ LET r == [Idle EXCEPT !.kind = "cb", !.uid = uid, !.name = NameOf(uid),
                             !.text = data, !.imid = imid,
                             !.chat = IF imid = "" THEN chat_id ELSE 0]
           params == split(data)
           poll_id == int(params[1])
           action == params[2]
           poll == get_by_id(poll_id)
           q == [r EXCEPT !.pid = poll_id, !.poll = poll]
       IN  h' = [h EXCEPT ![i] =
             IF over_quota
             THEN over_quota_answer(r)
             ELSE IF ~data_ok(data)
             THEN Finish(answer_callback_query(r, INVALID_DATA))
             ELSE IF poll = <<>>
             THEN Finish(answer_callback_query(
                      edit_origin(q, "edit_message_reply_markup", "", "", 0),
                      POLL_DELETED))
             ELSE IF isdigit(action)
             THEN [q EXCEPT !.pc = "txn_read", !.opt = int(action), !.poll = <<>>]
             ELSE IF chat_action(action, imid, ACT_REFRESH)
             THEN Finish(answer_callback_query(
                      edit_origin(q, "edit_message_text", "render_text",
                                  "build_admin_buttons", poll_id),
                      <<"Results updated!">>))
             ELSE IF chat_action(action, imid, ACT_VOTE)
             THEN Finish(answer_callback_query(
                      edit_origin(q, "edit_message_reply_markup", "",
                                  "build_vote_buttons(admin=True)", poll_id),
                      <<"You may now vote!">>))
             ELSE IF chat_action(action, imid, ACT_DELETE)
             THEN [q EXCEPT !.pc = "cb_delete"]
             ELSE IF chat_action(action, imid, ACT_BACK)
             THEN Finish(answer_callback_query(
                      edit_origin(q, "edit_message_reply_markup", "",
                                  "build_admin_buttons", poll_id),
                      <<"">>))
             ELSE Finish(answer_callback_query(r, INVALID_DATA))]
    /\ UNCHANGED <<polls, nextId, session, odd, sizeFinal, finalized, views, default_people>>

\* 'delete' in chat context: poll.key.delete(), clear the buttons, answer.
handle_callback_delete(i) ==
    /\ h[i].pc = "cb_delete"
    /\ polls' = delete(polls, h[i].pid)
    /\ h' = [h EXCEPT ![i] =
               Finish(answer_callback_query(
                   edit_origin(h[i], "edit_message_reply_markup", "", "", 0),
                   <<"Poll deleted!">>))]
    /\ odd' = {t \in odd : t[1] # h[i].pid}  \* the history of stored polls only
    /\ UNCHANGED <<nextId, session, sizeFinal, finalized, views, default_people>>

\* ------------------------------------------------------------ Poll.toggle

\* (mutant) a commit that never checks what it read: a plain read-modify-write.
txn_conflict_unchecked(read, poll_id) == FALSE

\* The commit of a transaction fails when the entity it read has been written
\* since.  (The datastore compares versions; comparing the entity read with
\* the entity stored admits the same committed results.)
txn_conflict(read, poll_id) == get_by_id(poll_id) # read

\* What the caller of Poll.toggle does with (poll, status).
toggle_returns(r, ret) ==
    IF r.kind = "call"
    THEN Finish([r EXCEPT !.ret = <<[poll |-> ret.poll, status |-> ret.status]>>])
    ELSE IF ret.poll = <<>>
    THEN Abort500(r)  \* None.render_text(): AttributeError
    ELSE Finish(answer_callback_query(
             edit_origin([r EXCEPT !.poll = ret.poll], "edit_message_text", "render_text",
                         IF r.imid # "" THEN "build_vote_buttons"
                         ELSE "build_vote_buttons(admin=True)", r.pid),
             ret.status))

\* An exception leaves Poll.toggle (IndexError, TransactionFailedError).
toggle_raises(r) ==
    IF r.kind = "call" THEN [r EXCEPT !.pc = "done", !.result = "raised", !.poll = <<>>]
    ELSE Abort500(r)

\* The transaction's read, and the body when it writes nothing.
Poll_toggle_read(i) ==
    /\ h[i].pc = "txn_read"
    /\ LET r == h[i]
           got == get_by_id(r.pid)
           ret == Poll_toggle_body(got, r.opt, r.uid, r.name[1], r.name[2])
       IN  h' = [h EXCEPT ![i] =
                   IF ret.raised THEN toggle_raises(r)
                   ELSE IF ~ret.put THEN toggle_returns(r, ret)
                   ELSE [r EXCEPT !.pc = "txn_commit", !.poll = got]]
    /\ UNCHANGED <<polls, nextId, session, odd, sizeFinal, finalized, views, default_people>>

Flip(set, x) == IF x \in set THEN set \ {x} ELSE set \cup {x}

is_default_if_equal(people) == people = default_people

\* Whether the people map of an option got from the datastore is the default
\* object: the options are a PickleProperty, and unpickling builds a new
\* OrderedDict for every option.
is_default(people) == FALSE

\* The transaction's commit of poll.put(): it writes, or it lost a conflict
\* and ndb.transactional runs the function again or, its retries used up,
\* raises TransactionFailedError (the retries are not counted here).
Poll_toggle_commit(i) ==
    /\ h[i].pc = "txn_commit"
    /\ LET r == h[i]
           ret == Poll_toggle_body(r.poll, r.opt, r.uid, r.name[1], r.name[2])
       IN  IF txn_conflict(r.poll, r.pid)
           THEN /\ \/ h' = [h EXCEPT ![i] = [r EXCEPT !.pc = "txn_read", !.poll = <<>>]]
                   \/ h' = [h EXCEPT ![i] = toggle_raises(r)]
                /\ UNCHANGED <<polls, odd, default_people>>
           ELSE /\ polls' = put(polls, r.pid, ret.poll[1])
                /\ odd' = Flip(odd, <<r.pid, ret.at, str(r.uid)>>)
                /\ h' = [h EXCEPT ![i] = toggle_returns(r, ret)]
                \* Option.toggle writes to self.people in place
                /\ default_people' = IF is_default(r.poll[1].options[ret.at].people)
                                     THEN ret.poll[1].options[ret.at].people
                                     ELSE default_people
    /\ UNCHANGED <<nextId, session, sizeFinal, finalized, views>>

\* Poll.toggle called directly.
Poll_toggle(i, poll_id, opt_id, uid, first_name, last_name) ==
    /\ h[i].pc = "idle"
    /\ h' = [h EXCEPT ![i] =
               [Idle EXCEPT !.kind = "call", !.pc = "txn_read", !.pid = poll_id,
                            !.opt = opt_id, !.uid = uid,
                            !.name = <<first_name, last_name>>]]
    /\ UNCHANGED <<polls, nextId, session, odd, sizeFinal, finalized, views, default_people>>

\* ---------------------------------------------------- handle_inline_query

\* The characters of the model's texts in code-point order; the last one
\* stands for u'�'.
Alphabet == <<" ", "+", "-", "/", "0", "1", "2", "3", "4", "5", "6", "7", "8", "9",
              "A", "B", "C", "_", "a", "b", "c", "d", "e", "f", "h", "i", "k", "l",
              "n", "o", "p", "r", "s", "t", "v", "w", "x", "z", "U+FFFD">>

Code(c) == CHOOSE k \in 1..Len(Alphabet) : Alphabet[k] = c

\* a < b for python strings.
RECURSIVE str_lt(_, _)
str_lt(a, b) ==
    IF b = <<>> THEN FALSE
    ELSE IF a = <<>> THEN TRUE
    ELSE IF a[1] # b[1] THEN Code(a[1]) < Code(b[1])
    ELSE str_lt(Tail(a), Tail(b))

\* The ids of a set of polls in the order of the title_short index.
RECURSIVE ByTitleShort(_)
ByTitleShort(ids) ==
    IF ids = {} THEN <<>>
    ELSE LET first == CHOOSE p \in ids : \A q \in ids \ {p} :
                          \/ str_lt(polls[p].title_short, polls[q].title_short)
                          \/ polls[p].title_short = polls[q].title_short /\ p < q
         IN  <<first>> \o ByTitleShort(ids \ {first})

\* sorted(..., key=created, reverse=True) of a sequence of ids.
RECURSIVE sorted_newest(_)
sorted_newest(seq) ==
    IF seq = <<>> THEN <<>>
    ELSE LET k == CHOOSE a \in 1..Len(seq) : \A b \in 1..Len(seq) :
                      \/ polls[seq[b]].created < polls[seq[a]].created
                      \/ polls[seq[b]].created = polls[seq[a]].created /\ a <= b
             rest == [j \in 1..(Len(seq) - 1) |-> IF j < k THEN seq[j] ELSE seq[j + 1]]
         IN  <<seq[k]>> \o sorted_newest(rest)

\* The query of handle_inline_query, its fetch and the sort of what it fetched.
inline_results(uid, query) ==
    LET text == lower(query)
        hits == {p \in DOMAIN polls :
                    /\ polls[p].admin_uid = str(uid)
                    /\ ~str_lt(polls[p].title_short, text)
                    /\ str_lt(polls[p].title_short, text \o <<"U+FFFD">>)}
    IN  sorted_newest(fetch(ByTitleShort(hits), FetchLimit))

\* The whole request: it reads the store once and answers.
handle_inline_query(i, uid, query) ==
    /\ h[i].pc = "idle"
    /\ h' = [h EXCEPT ![i] =
               Finish([Idle EXCEPT
                   !.kind = "iq", !.uid = uid, !.text = query,
                   !.out = <<[method |-> "answerInlineQuery", chat_id |-> 0,
                              message_id |-> 0, inline_message_id |-> "",
                              text |-> "render_text",
                              reply_markup |-> "build_vote_buttons", poll |-> 0,
                              listed |-> inline_results(uid, query)]>>])]
    /\ UNCHANGED <<polls, nextId, session, odd, sizeFinal, finalized, views, default_people>>

\* ------------------------------------------------------------ TelegramPage

\* str(exception) is modelled as the sequence of the message's parts.
RECOGNISED_ERRORS == {<<"u'Bad Request: message is not modified'">>,
                      <<"u'Bad Request: message to edit not found'">>,
                      <<"Message_id_invalid">>}
RECOGNISED_ERROR_URLFETCH == "urlfetch.Fetch()"

\* isinstance(exception, telegram.error.NetworkError): the class and its
\* subclasses BadRequest and TimedOut.
is_NetworkError(exception) == exception.cls \in {"NetworkError", "BadRequest", "TimedOut"}

\* RECOGNISED_ERROR_URLFETCH in str(exception)
in_str(part, exception) == \E k \in 1..Len(exception.str) : exception.str[k] = part

handle_exception_benign(exception) ==
    IF is_NetworkError(exception)
    THEN IF exception.str \in RECOGNISED_ERRORS THEN "ok" ELSE "500"
    ELSE IF exception.cls \in {"Unauthorized", "RetryAfter"} THEN "ok"
    ELSE IF in_str(RECOGNISED_ERROR_URLFETCH, exception) THEN "ok"
    ELSE "500"

\* TelegramPage.handle_exception: "ok" when it returns (the job's response is
\* a success), "500" when it gets to self.abort(500).
TelegramPage_handle_exception(exception) ==
    IF is_NetworkError(exception)
    THEN IF exception.str \in RECOGNISED_ERRORS THEN "ok" ELSE "500"
    ELSE IF exception.cls = "Unauthorized" THEN "ok"
    ELSE IF exception.cls = "RetryAfter" THEN "500"
    ELSE IF in_str(RECOGNISED_ERROR_URLFETCH, exception) THEN "500"
    ELSE "500"

\* TelegramPage.post: one run of an outbox job; raised is <<>> when the call
\* of the bot method succeeds and <<exception>> when it raises.
TelegramPage_post(i, method_name, raised) ==
    /\ h[i].pc \in {"idle", "retry"}
    /\ h[i].pc = "retry" => method_name = h[i].text[1]
    /\ h' = [h EXCEPT ![i] =
               [Idle EXCEPT !.pc = "done", !.kind = "job", !.text = <<method_name>>,
                            !.exc = raised,
                            !.result = IF raised = <<>> THEN "ok"
                                       ELSE TelegramPage_handle_exception(raised[1])]]
    /\ UNCHANGED <<polls, nextId, session, odd, sizeFinal, finalized, views, default_people>>

\* The task queue runs a job again when its response was a server error.
redeliver(i) ==
    /\ h[i].pc = "done" /\ h[i].kind = "job" /\ h[i].result = "500"
    /\ h' = [h EXCEPT ![i].pc = "retry"]
    /\ UNCHANGED <<polls, nextId, session, odd, sizeFinal, finalized, views, default_people>>

\* --------------------------------------------------------- specifications

NoHistory ==
    /\ odd = {}
    /\ sizeFinal = [p \in PollIds |-> <<>>]
    /\ finalized = {}
    /\ views = {}

\* Titles of the polls and options the initial stores hold.
TITLE == <<"A", "b">>
OptionTitles == <<<<"a">>, <<"b">>, <<"c">>>>

\* A poll of user `admin` with its first n options, as the dialogue leaves it.
PollWith(admin, n, created) ==
    [Poll_new(str(admin), TITLE) EXCEPT
        !.options = [k \in 1..n |-> Option(OptionTitles[k], <<>>)],
        !.created = created]

\* Poll.toggle alone: one stored poll, callers of Poll.toggle in every slot.
InitToggle ==
    /\ \E n \in 1..2 : polls = (1 :> PollWith(1, n, 1))
    /\ nextId = 2
    /\ session = [c \in Users |-> <<>>]
    /\ h = [i \in Handlers |-> Idle]
    /\ default_people = <<>>
    /\ NoHistory

NextToggle ==
    \/ \E i \in Handlers, opt_id \in 0..1, uid \in Users :
          Poll_toggle(i, 1, opt_id, uid, NameOf(uid)[1], NameOf(uid)[2])
    \/ \E i \in Handlers : Poll_toggle_read(i)
    \/ \E i \in Handlers : Poll_toggle_commit(i)
    \/ \E i \in Handlers : respond(i)

SpecToggle == InitToggle /\ [][NextToggle]_vars

AllIdle == \A j \in Handlers : h[j].pc = "idle"

\* Poll.toggle called with every kind of argument, one call at a time: polls
\* of 0..MaxInitOptions options, ids that resolve and ids that do not, option
\* indexes below, inside and above the options, voters who change their name.
MaxInitOptions == 2
FirstNames == {"Sam", "Sammy"}

InitCall ==
    /\ \E n \in 0..MaxInitOptions : polls = (1 :> PollWith(1, n, 1))
    /\ nextId = 2
    /\ session = [c \in Users |-> <<>>]
    /\ h = [i \in Handlers |-> Idle]
    /\ default_people = <<>>
    /\ NoHistory

NextCall ==
    \/ \E i \in Handlers, poll_id \in PollIds, opt_id \in (-1)..MaxInitOptions,
          uid \in Users, first_name \in FirstNames :
          AllIdle /\ Poll_toggle(i, poll_id, opt_id, uid, first_name, "")
    \/ \E i \in Handlers : Poll_toggle_read(i)
    \/ \E i \in Handlers : Poll_toggle_commit(i)
    \/ \E i \in Handlers : respond(i)

SpecCall == InitCall /\ [][NextCall]_vars

\* The callback dispatcher alone: every stored poll is a delivered poll of one
\* option, and callbacks of every shape arrive in every slot.
Payload(poll_id, action) == str(poll_id) \o <<" ">> \o action

Actions == {<<"0">>, <<"1">>, ACT_REFRESH, ACT_VOTE, ACT_DELETE, ACT_BACK, <<"z">>}

\* Well-formed payloads for polls 1 and 2, and two malformed ones.
CbData ==
    {Payload(p, a) : p \in 1..2, a \in Actions} \cup {<<"1">>, <<"x", " ", "0">>}

InlineIds == {"", "AgAAAA"}

\* Who presses the buttons: the admin of poll 1, who is not the admin of poll 2.
Requesters == {1}

\* A button of a chat message is pressed in a chat that was sent the admin
\* view of its poll (the chat that receives poll p's view is chat p: the
\* requester's own chat for p = 1, a chat the requester is a member of
\* otherwise); an inline message has no chat.
Pressed(chat_id, data, imid) ==
    IF imid # "" THEN chat_id = 1
    ELSE IF data_ok(data) THEN <<chat_id, int(split(data)[1])>> \in views
    ELSE chat_id = 1

InitCb ==
    /\ polls = [p \in PollIds |-> PollWith(p, 1, p)]
    /\ nextId = MaxPolls + 2
    /\ session = [c \in Users |-> <<>>]
    /\ h = [i \in Handlers |-> Idle]
    /\ default_people = <<>>
    /\ odd = {}
    /\ sizeFinal = [p \in PollIds |-> <<>>]
    /\ finalized = DOMAIN polls
    /\ views = {<<p, p>> : p \in PollIds}

NextCb ==
    \/ \E i \in Handlers, uid \in Requesters, chat_id \in PollIds, data \in CbData,
          imid \in InlineIds, over_quota \in BOOLEAN :
          /\ h[i].pc = "idle"
          /\ Pressed(chat_id, data, imid)
          /\ handle_callback_query(i, uid, chat_id, data, imid, over_quota)
    \/ \E i \in Handlers : handle_callback_delete(i)
    \/ \E i \in Handlers : Poll_toggle_read(i)
    \/ \E i \in Handlers : Poll_toggle_commit(i)
    \/ \E i \in Handlers : respond(i)

SpecCb == InitCb /\ [][NextCb]_vars

\* The whole program from an empty store: conversations, button presses and
\* inline queries.
Chats == {1}
TEXT == <<"A", "b">>
Texts == {<<>>, CMD_START, CMD_DONE, CMD_POLLS, CMD_VIEW \o <<"1">>,
          CMD_VIEW \o <<"x">>, TEXT}
Presses == {Payload(1, <<"0">>), Payload(1, ACT_DELETE)}
Queries == {<<"a">>}

Init ==
    /\ polls = <<>>
    /\ nextId = 1
    /\ session = [c \in Users |-> <<>>]
    /\ h = [i \in Handlers |-> Idle]
    /\ default_people = <<>>
    /\ NoHistory

\* A request arrives in slot i.
Receive(i) ==
    \/ \E chat \in Chats, text \in Texts, over_quota \in BOOLEAN :
          handle_message(i, chat, text, over_quota)
    \/ \E uid \in Requesters, data \in Presses :
          /\ h[i].pc = "idle"
          /\ Pressed(uid, data, "")
          /\ handle_callback_query(i, uid, uid, data, "", FALSE)
    \/ \E uid \in Requesters, query \in Queries : handle_inline_query(i, uid, query)

\* The request in slot i goes on to its next datastore or memcache call.
Continue(i) ==
    \/ handle_message_done(i)
    \/ handle_message_clear(i)
    \/ handle_message_create(i)
    \/ handle_message_create_set(i)
    \/ handle_message_opt_get(i)
    \/ handle_message_opt_put(i)
    \/ handle_callback_delete(i)
    \/ Poll_toggle_read(i)
    \/ Poll_toggle_commit(i)
    \/ respond(i)

Next ==
    \/ \E i \in Handlers : Receive(i)
    \/ \E i \in Handlers : Continue(i)
    \/ \E chat \in Chats : expire(chat)

Spec == Init /\ [][Next]_vars

\* The same program when the requests are handled one after the other.
NextSeq ==
    \/ \E i \in Handlers : AllIdle /\ Receive(i)
    \/ \E i \in Handlers : Continue(i)
    \/ \E chat \in Chats : expire(chat)

SpecSeq == Init /\ [][NextSeq]_vars

\* Inline queries against stores of up to one poll more than a fetch returns.
\* Every poll but the newest is titled 'ac'; poll 2 may be somebody else's.
StoreSizes == {0, 1, 2, FetchLimit, FetchLimit + 1}
InlineTitles == {<<"A", "b">>, <<"a", "c">>, <<"b">>}
InlineQueries == {<<>>, <<"a">>, <<"A">>, <<"a", "c">>, <<"b">>}

InitInline ==
    /\ \E n \in StoreSizes, newest \in InlineTitles, other \in Users :
          polls = [p \in 1..n |->
                      [Poll_new(str(IF p = 2 THEN other ELSE 1),
                                IF p = n THEN newest ELSE <<"a", "c">>)
                          EXCEPT !.created = p]]
    /\ nextId = Len(polls) + 1
    /\ session = [c \in Users |-> <<>>]
    /\ h = [i \in Handlers |-> Idle]
    /\ default_people = <<>>
    /\ NoHistory

NextInline ==
    \/ \E i \in Handlers, uid \in Users, query \in InlineQueries :
          AllIdle /\ handle_inline_query(i, uid, query)
    \/ \E i \in Handlers : respond(i)

SpecInline == InitInline /\ [][NextInline]_vars

\* '/view_<id>' in conversations of every session value, against a store that
\* holds a poll of each user; the identity write succeeds.
ViewIds == {<<"1">>, <<"2">>, <<" ", "1">>, <<"-", "1">>, <<"x">>, <<>>, str(MaxPolls + 2)}
Sessions == {<<>>, START, OPT(1), OPT(2)}

InitView ==
    /\ polls = [p \in PollIds |-> PollWith(p, 1, p)]
    /\ nextId = MaxPolls + 2
    /\ session \in [Users -> Sessions]
    /\ h = [i \in Handlers |-> Idle]
    /\ default_people = <<>>
    /\ NoHistory

NextView ==
    \/ \E i \in Handlers, chat \in Users, id \in ViewIds :
          handle_message(i, chat, CMD_VIEW \o id, FALSE)
    \/ \E i \in Handlers : handle_message_clear(i)
    \/ \E i \in Handlers : respond(i)

SpecView == InitView /\ [][NextView]_vars

\* The outbox jobs alone, with every failure a call of the bot can end in.
Methods == {"send_message", "edit_message_text"}
ExceptionClasses == {"NetworkError", "BadRequest", "TimedOut", "Unauthorized",
                     "RetryAfter", "TelegramError", "DeadlineExceededError"}
ExceptionTexts ==
    RECOGNISED_ERRORS \cup
    {<<"Bad Request: chat not found">>,
     <<"Forbidden: bot was blocked by the user">>,
     <<"Flood control exceeded. Retry in 5 seconds">>,
     <<"Unable to fetch URL. Error: ", RECOGNISED_ERROR_URLFETCH, " took too long">>}
Exceptions == [cls : ExceptionClasses, str : ExceptionTexts]

InitOutbox ==
    /\ polls = <<>>
    /\ nextId = 1
    /\ session = [c \in Users |-> <<>>]
    /\ h = [i \in Handlers |-> Idle]
    /\ default_people = <<>>
    /\ NoHistory

NextOutbox ==
    \/ \E i \in Handlers, method_name \in Methods :
          TelegramPage_post(i, method_name, <<>>)
    \/ \E i \in Handlers, method_name \in Methods, exception \in Exceptions :
          TelegramPage_post(i, method_name, <<exception>>)
    \/ \E i \in Handlers : redeliver(i)
    \/ \E i \in Handlers : respond(i)

SpecOutbox == InitOutbox /\ [][NextOutbox]_vars

\* Options appended to poll 1 by its conversation while votes are toggled,
\* through the buttons of inline messages, on the first options of the polls.
Votes == {Payload(p, <<"0">>) : p \in PollIds} \cup {Payload(1, <<"1">>)}

InitOptions ==
    /\ polls = [p \in PollIds |-> PollWith(p, 1, p)]
    /\ nextId = MaxPolls + 2
    /\ session = [c \in Users |-> OPT(c)]
    /\ h = [i \in Handlers |-> Idle]
    /\ default_people = <<>>
    /\ NoHistory

NextOptions ==
    \/ \E i \in Handlers : AllIdle /\ handle_message(i, 1, TEXT, FALSE)
    \/ \E i \in Handlers, uid \in Users, data \in Votes :
          AllIdle /\ handle_callback_query(i, uid, 1, data, "AgAAAA", FALSE)
    \/ \E i \in Handlers : handle_message_opt_get(i)
    \/ \E i \in Handlers : handle_message_opt_put(i)
    \/ \E i \in Handlers : handle_message_clear(i)
    \/ \E i \in Handlers : Poll_toggle_read(i)
    \/ \E i \in Handlers : Poll_toggle_commit(i)
    \/ \E i \in Handlers : respond(i)

SpecOptions == InitOptions /\ [][NextOptions]_vars

\* ----------------------------------------------------------------- claims

InTransaction(i) == h[i].pc \in {"txn_read", "txn_commit"}

Member(poll_id, k, uid) == people_get(polls[poll_id].options[k].people, str(uid))

\* C1: no update of concurrent Poll.toggle calls is lost: once every call has
\* completed, a voter is in an option's people map exactly when the committed
\* toggles of that voter on that option are odd in number.
C1_NoLostUpdate ==
    (\A i \in Handlers : ~InTransaction(i)) =>
        \A p \in DOMAIN polls : \A k \in 1..Len(polls[p].options) : \A u \in Users :
            Member(p, k, u) <=> <<p, k, str(u)>> \in odd

\* Two calls by different voters on the same option have completed, both added.
C1_Witness ==
    /\ \A i \in Handlers : h[i].pc = "done" /\ h[i].result = "ok" /\ h[i].opt = 0
    /\ h[1].uid # h[2].uid
    /\ 1 \in DOMAIN polls
    /\ \A u \in Users : Member(1, 1, u) /\ <<1, 1, str(u)>> \in odd

\* The option a non-negative index names, when there is one.
InRange(poll_id, opt_id) ==
    poll_id \in DOMAIN polls /\ opt_id >= 0 /\ opt_id < Len(polls[poll_id].options)

Without(people, key) ==
    LET Other(e) == e.uid # key
    IN  SelectSeq(people, Other)

\* One in-range call of Poll.toggle, from its read to its return: the voter
\* goes last into the map ('added to <title>') or leaves it ('removed from
\* <title>'), nobody else moves, and the poll returned is the poll stored.
C3_ToggleStep(i) ==
    LET r == h[i]
        before == polls[r.pid].options[r.opt + 1]
        after == polls'[r.pid].options[r.opt + 1]
        key == str(r.uid)
    IN  /\ (r.pc = "txn_read" /\ h'[i] # r /\ InRange(r.pid, r.opt))
              => h'[i].pc = "txn_commit"
        /\ (r.pc = "txn_commit" /\ h'[i] # r /\ InRange(r.pid, r.opt)) =>
              /\ h'[i].pc = "done" /\ h'[i].result = "ok"
              /\ h'[i].ret = <<[poll |-> <<polls'[r.pid]>>,
                                status |-> h'[i].ret[1].status]>>
              /\ after.title = before.title
              /\ IF \E k \in 1..Len(before.people) : before.people[k].uid = key
                 THEN /\ after.people = Without(before.people, key)
                      /\ h'[i].ret[1].status =
                            <<"Your name was {} {}!", "removed from", before.title>>
                 ELSE /\ after.people =
                            before.people \o <<[uid |-> key, name |-> r.name]>>
                      /\ h'[i].ret[1].status =
                            <<"Your name was {} {}!", "added to", before.title>>

\* The people map of option opt_id after two identical calls in a row.
TwiceToggled(poll_id, opt_id, uid, first_name) ==
    LET once == Poll_toggle_body(<<polls[poll_id]>>, opt_id, uid, first_name, "")
        twice == Poll_toggle_body(once.poll, opt_id, uid, first_name, "")
    IN  twice.poll[1].options[opt_id + 1].people

\* C3 as stated: two consecutive identical calls restore the people map
\* (read for calls that give the voter's name as the map already has it).
C3_RoundTripRestores ==
    \A p \in DOMAIN polls : \A o \in 0..(Len(polls[p].options) - 1) :
        \A u \in Users : \A n \in FirstNames :
            LET before == polls[p].options[o + 1].people
            IN  (\A k \in 1..Len(before) :
                    before[k].uid = str(u) => before[k].name = <<n, "">>)
                => TwiceToggled(p, o, u, n) = before

\* Two identical calls in a row restore the map when the voter was not in it;
\* a voter who was in it ends last, under the name of the calls.
C3_RoundTripAmended ==
    \A p \in DOMAIN polls : \A o \in 0..(Len(polls[p].options) - 1) :
        \A u \in Users : \A n \in FirstNames :
            LET before == polls[p].options[o + 1].people
            IN  IF \E k \in 1..Len(before) : before[k].uid = str(u)
                THEN TwiceToggled(p, o, u, n) =
                        Without(before, str(u)) \o <<[uid |-> str(u), name |-> <<n, "">>]>>
                ELSE TwiceToggled(p, o, u, n) = before

\* C3 (amended): an in-range Poll.toggle adds the absent voter at the end of
\* the option's people map with 'added to <option title>' and removes the
\* present voter with 'removed from <option title>'; two consecutive identical
\* calls restore the map when the voter was absent before the first, and put a
\* voter who was present last.
C3_Toggle == []C3_RoundTripAmended /\ [][\A i \in Handlers : C3_ToggleStep(i)]_vars

\* A call has removed a voter from an option that still holds another one.
C3_Witness ==
    \E i \in Handlers :
        /\ h[i].pc = "done" /\ h[i].kind = "call" /\ h[i].ret # <<>>
        /\ InRange(h[i].pid, h[i].opt)
        /\ h[i].ret[1].status[2] = "removed from"
        /\ Len(polls[h[i].pid].options[h[i].opt + 1].people) = 1

\* C4: Poll.toggle fails, returns no poll and changes no poll when the id does
\* not resolve ('this poll has been deleted') and when the option index is at
\* or above the option count or below zero (the invalid-option status).
C4_FailsWithoutChange ==
    [][\A i \in Handlers :
        LET r == h[i]
            missing == r.pid \notin DOMAIN polls
            outside == ~missing /\ (r.opt >= Len(polls[r.pid].options) \/ r.opt < 0)
        IN  (r.kind = "call" /\ r.pc = "txn_read" /\ h'[i] # r /\ (missing \/ outside)) =>
                /\ h'[i].pc = "done"
                /\ h'[i].ret = <<[poll |-> <<>>,
                                  status |-> IF missing THEN POLL_DELETED
                                             ELSE INVALID_OPTION]>>
                /\ polls' = polls]_vars

\* C2: every callback interaction ends with exactly one answer, on every
\* path of the dispatcher.
C2_ExactlyOneAnswer ==
    \A i \in Handlers :
        (h[i].pc = "done" /\ h[i].kind = "cb") =>
            Len(h[i].answers) = 1 /\ h[i].result = "ok"

\* Slot i takes a callback in this step and gets past the identity write.
Dispatches(i) ==
    /\ h[i].pc = "idle" /\ h'[i].pc # "idle" /\ h'[i].kind = "cb"
    /\ h'[i].answers # <<ERROR_OVER_QUOTA>>

PayloadPoll(data) == int(split(data)[1])
PayloadAction(data) == split(data)[2]

\* The one request that clears the buttons of the message r came from.
ClearsButtons(r) ==
    /\ Len(r.out) = 1
    /\ r.out[1].method = "edit_message_reply_markup"
    /\ r.out[1].reply_markup = ""
    /\ IF r.imid # ""
       THEN /\ r.out[1].inline_message_id = r.imid
            /\ r.out[1].chat_id = 0 /\ r.out[1].message_id = 0
       ELSE /\ r.out[1].inline_message_id = ""
            /\ r.out[1].chat_id = r.chat /\ r.out[1].message_id # 0

\* C8: a callback for a poll that was deleted (its identity write done) is
\* answered 'this poll has been deleted', clears the buttons of its message
\* by inline-message id or by chat id + message id, and changes no poll.
C8_StaleCallback ==
    [][\A i \in Handlers :
        (/\ Dispatches(i)
         /\ data_ok(h'[i].text)
         /\ PayloadPoll(h'[i].text) \in 1..(nextId - 1)
         /\ PayloadPoll(h'[i].text) \notin DOMAIN polls) =>
            /\ h'[i].pc = "done" /\ h'[i].result = "ok"
            /\ h'[i].answers = <<POLL_DELETED>>
            /\ ClearsButtons(h'[i])
            /\ polls' = polls]_vars

\* Stale callbacks of both contexts have been answered while another poll
\* is still stored.
C8_Witness ==
    /\ \A i \in Handlers :
          /\ h[i].pc = "done" /\ h[i].kind = "cb"
          /\ h[i].answers = <<POLL_DELETED>>
          /\ h[i].text = Payload(1, ACT_REFRESH)
    /\ h[1].imid = "" /\ h[2].imid # ""
    /\ 1 \notin DOMAIN polls /\ 2 \in DOMAIN polls

\* C9: in inline context refresh, vote, delete and back on a stored poll are
\* invalid: the invalid-data answer, no outbound edit, the store unchanged,
\* and the request over (a delete never gets to key.delete()).
C9_InlineInvalid ==
    [][\A i \in Handlers :
        (/\ Dispatches(i)
         /\ data_ok(h'[i].text)
         /\ PayloadPoll(h'[i].text) \in DOMAIN polls
         /\ h'[i].imid # ""
         /\ PayloadAction(h'[i].text) \in {ACT_REFRESH, ACT_VOTE, ACT_DELETE, ACT_BACK}) =>
            /\ h'[i].pc = "done" /\ h'[i].result = "ok"
            /\ h'[i].answers = <<INVALID_DATA>>
            /\ h'[i].out = <<>>
            /\ polls' = polls]_vars

\* An inline 'delete' for a stored poll has been answered as invalid.
C9_Witness ==
    \E i \in Handlers :
        /\ h[i].pc = "done" /\ h[i].kind = "cb" /\ h[i].imid # ""
        /\ h[i].text = Payload(2, ACT_DELETE)
        /\ h[i].answers = <<INVALID_DATA>>
        /\ 2 \in DOMAIN polls

\* A text that is no command: the branch of handle_message that looks at the
\* session.
PlainText(text) ==
    /\ text # <<>>
    /\ ~startswith(text, CMD_START) /\ ~startswith(text, CMD_VIEW)
    /\ text # CMD_DONE /\ text # CMD_POLLS

\* One append of a conversation whose messages are handled one at a time.
C5_Append(i) ==
    LET r == h[i]
        p == r.pid
        before == Len(polls[p].options)
        after == Len(polls'[p].options)
    IN  (r.pc = "opt_put" /\ h'[i] # r) =>
            /\ after = before + 1
            /\ IF before = MaxOptions - 1
               THEN /\ h'[i].pc = "clear" /\ Delivered(h'[i], p)
                    /\ sizeFinal[p] = <<>> /\ sizeFinal'[p] = <<MaxOptions>>
               ELSE /\ after < MaxOptions
                    /\ h'[i].pc = "done" /\ ~Delivered(h'[i], p)
                    /\ Sent(h'[i], "NEXT_OPTION")
                    /\ session' = session /\ sizeFinal' = sizeFinal

\* The delivering request ends by clearing the session of its conversation.
C5_Clear(i) ==
    (h[i].pc = "clear" /\ h'[i] # h[i]) =>
        h'[i].pc = "done" /\ session'[h[i].uid] = <<>>

\* C5: with the messages of a conversation handled one at a time, the append
\* that takes a poll from 9 to 10 options delivers the poll to the admin and
\* clears the session, an append that leaves fewer than 10 does neither, and
\* no poll is delivered for its size more than once.
C5_FinalizeOnce ==
    /\ [](\A p \in PollIds : Len(sizeFinal[p]) <= 1)
    /\ [](\A p \in DOMAIN polls :
            Len(polls[p].options) = MaxOptions <=> sizeFinal[p] = <<MaxOptions>>)
    /\ [][\A i \in Handlers : C5_Append(i) /\ C5_Clear(i)]_vars

\* The tenth option is in, the poll went to the admin and the session is clear.
C5_Witness ==
    \E i \in Handlers :
        /\ h[i].pc = "done" /\ h[i].kind = "msg" /\ h[i].text = TEXT
        /\ Delivered(h[i], 1) /\ Sent(h[i], "DONE")
        /\ 1 \in DOMAIN polls /\ Len(polls[1].options) = MaxOptions
        /\ sizeFinal[1] = <<MaxOptions>>
        /\ session[1] = <<>>

\* C6: every poll has between 0 and 10 options in every reachable state, the
\* messages of a conversation handled concurrently included.
C6_AtMostTenOptions ==
    \A p \in DOMAIN polls : Len(polls[p].options) <= MaxOptions

\* '/done' on a poll without options: the notice and nothing else.
C7_Done(i) ==
    LET r == h[i]
    IN  (/\ r.pc = "done_get" /\ h'[i] # r
         /\ r.pid \in DOMAIN polls /\ polls[r.pid].options = <<>>) =>
            /\ r.rt = OPT(r.pid) /\ r.text = CMD_DONE
            /\ h'[i].pc = "done" /\ h'[i].result = "ok"
            /\ h'[i].out = <<[method |-> "send_message", chat_id |-> r.uid,
                              message_id |-> 0, inline_message_id |-> "",
                              text |-> "PREMATURE_DONE", reply_markup |-> "",
                              poll |-> 0, listed |-> <<>>]>>
            /\ session' = session /\ polls' = polls /\ finalized' = finalized

\* A text that is no command, taken in OPT(p), goes on to the append to p; the
\* append to a poll without options makes the text its first option.
C7_TextAfter(i) ==
    LET r == h[i]
    IN  /\ \A chat \in Chats, p \in PollIds :
            (/\ r.pc = "idle" /\ h'[i].pc # "idle" /\ h'[i].kind = "msg"
             /\ h'[i].uid = chat /\ session[chat] = OPT(p)
             /\ PlainText(h'[i].text) /\ h'[i].pc # "done") =>
                h'[i].pc = "opt_get" /\ h'[i].pid = p
        /\ (r.pc = "opt_get" /\ h'[i] # r /\ r.pid \in DOMAIN polls) =>
                h'[i].pc = "opt_put" /\ h'[i].poll = <<polls[r.pid]>>
        /\ (r.pc = "opt_put" /\ h'[i] # r /\ r.poll[1].options = <<>>) =>
                polls'[r.pid].options = <<[title |-> r.text, people |-> <<>>]>>

\* C7: '/done' in OPT(p) while p has no option delivers no admin view, sends
\* the 'at least one option' notice and leaves the session and the poll as
\* they are, so that a following text is appended to p as its first option.
C7_PrematureDone == [][\A i \in Handlers : C7_Done(i) /\ C7_TextAfter(i)]_vars

\* After the notice the session is still OPT(1) and poll 1 has no option.
C7_Witness ==
    \E i \in Handlers :
        /\ h[i].pc = "done" /\ h[i].kind = "msg" /\ h[i].text = CMD_DONE
        /\ Sent(h[i], "PREMATURE_DONE")
        /\ session[1] = OPT(1)
        /\ 1 \in DOMAIN polls /\ polls[1].options = <<>>

\* The ids the datastore has not handed out yet.
Fresh == {p \in PollIds : p >= nextId}

\* C10: a text that is no command, taken in START, creates exactly one new
\* poll: its title is the text, its admin id is the conversation id, it has
\* no option, and the session becomes OPT(its id); no other step of a
\* message, a callback or an inline query creates a poll.
C10_CreateInStart ==
    /\ [](\A i \in Handlers :
            h[i].pc = "create_put" =>
                h[i].kind = "msg" /\ h[i].rt = START /\ PlainText(h[i].text))
    /\ [][\A chat \in Chats, i \in Handlers :
            (/\ h[i].pc = "idle" /\ h'[i].pc # "idle" /\ h'[i].kind = "msg"
             /\ h'[i].uid = chat /\ session[chat] = START
             /\ PlainText(h'[i].text) /\ h'[i].pc # "done") =>
                h'[i].pc = "create_put"]_vars
    /\ [][(nextId' # nextId \/ DOMAIN polls' \cap Fresh # {}) =>
            \E i \in Handlers :
                /\ h[i].pc = "create_put"
                /\ nextId' = nextId + 1
                /\ DOMAIN polls' = DOMAIN polls \cup {nextId}
                /\ \A p \in DOMAIN polls : polls'[p] = polls[p]
                /\ polls'[nextId].title = h[i].text
                /\ polls'[nextId].admin_uid = str(h[i].uid)
                /\ polls'[nextId].options = <<>>
                /\ h'[i].pc = "create_set" /\ h'[i].pid = nextId
                /\ h'[i].uid = h[i].uid]_vars
    /\ [][\A i \in Handlers :
            (h[i].pc = "create_set" /\ h'[i] # h[i]) =>
                /\ session'[h[i].uid] = OPT(h[i].pid)
                /\ h'[i].pc = "done" /\ polls' = polls]_vars

\* The poll of the text is stored and the session names it.
C10_Witness ==
    \E i \in Handlers :
        /\ h[i].pc = "done" /\ h[i].kind = "msg" /\ h[i].text = TEXT
        /\ Sent(h[i], "FIRST_OPTION")
        /\ 1 \in DOMAIN polls
        /\ polls[1].title = TEXT /\ polls[1].admin_uid = str(1)
        /\ polls[1].options = <<>>
        /\ session[1] = OPT(1)

\* The polls an inline search of requester uid for query is to find.
Matches(uid, query) ==
    {p \in DOMAIN polls :
        /\ polls[p].admin_uid = str(uid)
        /\ startswith(polls[p].title_short, lower(query))}

\* The newest limit of a set of polls.
Newest(ids, limit) ==
    {p \in ids :
        Cardinality({q \in ids : polls[q].created > polls[p].created}) < limit}

\* C11: an inline search returns exactly the requester's polls whose
\* title_short starts with the lowercased query, newest first, and the newest
\* FetchLimit of them when there are more.
C11_InlineSearch ==
    \A i \in Handlers :
        (h[i].pc = "done" /\ h[i].kind = "iq") =>
            LET listed == h[i].out[1].listed
            IN  /\ {listed[k] : k \in 1..Len(listed)} =
                       Newest(Matches(h[i].uid, h[i].text), FetchLimit)
                /\ \A k \in 1..(Len(listed) - 1) :
                       polls[listed[k]].created > polls[listed[k + 1]].created

\* The same for the stores that hold no more matches than a fetch returns.
C11_WithinLimit ==
    \A i \in Handlers :
        (/\ h[i].pc = "done" /\ h[i].kind = "iq"
         /\ Cardinality(Matches(h[i].uid, h[i].text)) <= FetchLimit) =>
            LET listed == h[i].out[1].listed
            IN  /\ {listed[k] : k \in 1..Len(listed)} = Matches(h[i].uid, h[i].text)
                /\ \A k \in 1..(Len(listed) - 1) :
                       polls[listed[k]].created > polls[listed[k + 1]].created

\* The voters of a poll: the users who are in one of its options.
Voters(poll_id) ==
    {u \in Users : \E k \in 1..Len(polls[poll_id].options) : Member(poll_id, k, u)}

\* C12: the respondent-count line counts the distinct voters of the poll's
\* options: 'Nobody responded' for none, '1 person responded' for one and
\* '<n> people responded' for n >= 2, after any toggles.
C12_RespondentCount ==
    \A p \in DOMAIN polls :
        LET n == Cardinality(Voters(p))
        IN  generate_respondents_summary(polls[p]) =
                IF n = 0 THEN <<"Nobody responded">>
                ELSE IF n = 1 THEN <<"1 person responded">>
                ELSE NatToStr(n) \o <<" people responded">>

\* One voter is in both options of poll 1 and nobody else is.
C12_Witness ==
    /\ 1 \in DOMAIN polls /\ Len(polls[1].options) = 2
    /\ Member(1, 1, 1) /\ Member(1, 2, 1)
    /\ Voters(1) = {1}
    /\ generate_respondents_summary(polls[1]) = <<"1 person responded">>

\* Two voters are in poll 1, one of them in both options.
C12_WitnessTwo ==
    /\ 1 \in DOMAIN polls /\ Len(polls[1].options) = 2
    /\ Member(1, 1, 1) /\ Member(1, 2, 1) /\ Member(1, 2, 2)
    /\ generate_respondents_summary(polls[1]) = <<"2", " people responded">>

\* The titles of a poll's options, in order.
OptionTitlesOf(poll) == [k \in 1..Len(poll.options) |-> poll.options[k].title]

\* C13: once a poll is finalized (delivered by '/done' or at 10 options, the
\* session cleared) its title and the sequence of its option titles never
\* change, however the text handlers of the conversation interleave.
C13_FrozenAfterFinal ==
    [][\A p \in finalized :
        (p \in DOMAIN polls /\ p \in DOMAIN polls') =>
            /\ polls'[p].title = polls[p].title
            /\ OptionTitlesOf(polls'[p]) = OptionTitlesOf(polls[p])]_vars

\* C14: a text or '/done' handled in OPT(p) when poll p is not stored ends
\* normally: nothing or the help text is sent, no poll is created or changed,
\* and the request does not end in a server error.
C14_MissingPollIgnored ==
    [][\A i \in Handlers :
        (/\ h[i].pc \in {"done_get", "opt_get"} /\ h'[i] # h[i]
         /\ h[i].rt = OPT(h[i].pid) /\ h[i].pid \notin DOMAIN polls) =>
            /\ h'[i].pc = "done" /\ h'[i].result = "ok"
            /\ h'[i].out = <<>> \/ Sent(h'[i], "HELP")
            /\ polls' = polls]_vars

\* C15: a poll leaves the store only through a chat-context callback with the
\* action 'delete' for that poll whose requester is the poll's admin.
C15_OnlyAdminDeletes ==
    [][\A p \in DOMAIN polls \ DOMAIN polls' :
        \E i \in Handlers :
            /\ h[i].pc = "cb_delete" /\ h'[i].pc = "done"
            /\ h[i].kind = "cb" /\ h[i].imid = ""
            /\ h[i].text = Payload(p, ACT_DELETE)
            /\ str(h[i].uid) = polls[p].admin_uid]_vars

\* The part of C15 the dispatcher keeps: only a chat-context 'delete' callback
\* for the poll removes it.
C15_OnlyDeleteAction ==
    [][\A p \in DOMAIN polls \ DOMAIN polls' :
        \E i \in Handlers :
            /\ h[i].pc = "cb_delete" /\ h'[i].pc = "done"
            /\ h[i].kind = "cb" /\ h[i].imid = ""
            /\ h[i].text = Payload(p, ACT_DELETE)]_vars

\* C16: when the identity write fails with OverQuotaError the callback is
\* answered with the overload notice and nothing else happens: the action is
\* not executed, no poll is toggled or deleted, nothing is enqueued.
C16_OverloadStops ==
    [][\A i \in Handlers :
        (/\ h[i].pc = "idle" /\ h'[i].pc # "idle" /\ h'[i].kind = "cb"
         /\ h'[i].answers # <<>> /\ h'[i].answers[1] = ERROR_OVER_QUOTA) =>
            /\ h'[i].pc = "done" /\ h'[i].result = "ok"
            /\ h'[i].answers = <<ERROR_OVER_QUOTA>>
            /\ h'[i].out = <<>> /\ h'[i].ret = <<>>
            /\ polls' = polls /\ odd' = odd]_vars

\* The overload answer was given to a chat-context 'delete' for a stored poll.
C16_Witness ==
    \E i \in Handlers :
        /\ h[i].pc = "done" /\ h[i].kind = "cb" /\ h[i].imid = ""
        /\ h[i].text = Payload(1, ACT_DELETE)
        /\ h[i].answers = <<ERROR_OVER_QUOTA>>
        /\ 1 \in DOMAIN polls

\* The one message that is the help text, to the caller.
HelpOnly(r) ==
    r.out = <<[method |-> "send_message", chat_id |-> r.uid, message_id |-> 0,
               inline_message_id |-> "", text |-> "HELP", reply_markup |-> "",
               poll |-> 0, listed |-> <<>>]>>

\* C17: '/view_<id>' delivers the admin view of poll <id> and then clears the
\* session when the poll is stored and the caller is its admin; otherwise the
\* caller gets the help text only, and the session stays as it is.
C17_ViewOnlyOwn ==
    [][/\ \A c \in Users :
            session'[c] # session[c] =>
                \E i \in Handlers : h[i].pc = "clear" /\ h[i].uid = c /\ h'[i] # h[i]
       /\ \A i \in Handlers :
        /\ (/\ h[i].pc = "idle" /\ h'[i].pc # "idle" /\ h'[i].kind = "msg"
            /\ startswith(h'[i].text, CMD_VIEW)) =>
               LET id == slice_from(h'[i].text, 6)
                   mine == {p \in DOMAIN polls : polls[p].admin_uid = str(h'[i].uid)}
               IN  IF int_ok(id) /\ int(id) \in mine
                   THEN /\ h'[i].pc = "clear" /\ h'[i].pid = int(id)
                        /\ Len(h'[i].out) = 1 /\ Delivered(h'[i], int(id))
                        /\ h'[i].out[1].chat_id = h'[i].uid
                   ELSE /\ h'[i].pc = "done" /\ h'[i].result = "ok"
                        /\ HelpOnly(h'[i])
                        /\ session' = session /\ views' = views
        /\ (h[i].pc = "clear" /\ h'[i] # h[i]) =>
               /\ h'[i].pc = "done" /\ h'[i].result = "ok"
               /\ session' = [session EXCEPT ![h[i].uid] = <<>>]]_vars

\* User 1 was sent the view of the own poll 1 and the session is clear; user 2
\* asked for poll 1 too, got the help text and is still in OPT(2).
C17_Witness ==
    /\ h[1].pc = "done" /\ h[1].uid = 1 /\ h[1].text = CMD_VIEW \o <<"1">>
    /\ Delivered(h[1], 1) /\ session[1] = <<>>
    /\ h[2].pc = "done" /\ h[2].uid = 2 /\ h[2].text = CMD_VIEW \o <<"1">>
    /\ HelpOnly(h[2]) /\ session[2] = OPT(2)

\* The failures the allow-list of the specification names.
EditUnchanged(e) == is_NetworkError(e) /\ e.str = <<"u'Bad Request: message is not modified'">>
EditGone(e) == is_NetworkError(e) /\ e.str = <<"u'Bad Request: message to edit not found'">>
StaleMessageId(e) == is_NetworkError(e) /\ e.str = <<"Message_id_invalid">>
Blocked(e) == e.cls = "Unauthorized"
RateLimited(e) == e.cls = "RetryAfter"
FetchFailure(e) == \E k \in 1..Len(e.str) : e.str[k] = RECOGNISED_ERROR_URLFETCH

\* A job that has run and failed.
Failed(i) == h[i].pc = "done" /\ h[i].kind = "job" /\ h[i].exc # <<>>

\* C18 as stated: a job whose failure is on the allow-list (unchanged edit,
\* edit of a gone message, stale message id, blocked, rate-limited, fetch
\* failure) reports success; every other failure is a server error.
C18_AllowListSwallowed ==
    \A i \in Handlers :
        Failed(i) =>
            LET e == h[i].exc[1]
            IN  h[i].result =
                    IF \/ EditUnchanged(e) \/ EditGone(e) \/ StaleMessageId(e)
                       \/ Blocked(e) \/ RateLimited(e) \/ FetchFailure(e)
                    THEN "ok" ELSE "500"

\* C18 (amended): a job whose failure is an unchanged edit, an edit of a gone
\* message, a stale message id or a blocked sender reports success and is not
\* run again; a rate-limited call, a fetch failure and every other failure
\* are a server error, after which the queue runs the job again.
C18_Swallowed ==
    /\ [](\A i \in Handlers :
            Failed(i) =>
                LET e == h[i].exc[1]
                IN  h[i].result =
                        IF \/ EditUnchanged(e) \/ EditGone(e) \/ StaleMessageId(e)
                           \/ Blocked(e)
                        THEN "ok" ELSE "500")
    /\ [][\A i \in Handlers :
            (h'[i].pc = "retry" /\ h[i].pc # "retry") =>
                (Failed(i) /\ h[i].result = "500")]_vars

\* A rate-limited job ended in a server error while the job of an unchanged
\* edit reported success.
C18_Witness ==
    /\ Failed(1) /\ RateLimited(h[1].exc[1]) /\ h[1].result = "500"
    /\ Failed(2) /\ EditUnchanged(h[2].exc[1]) /\ h[2].result = "ok"

\* An append: the new option is the last one, titled by the text, with no
\* voter in it.
C19_Append(i) ==
    LET r == h[i]
        after == polls'[r.pid].options
    IN  (r.pc = "opt_put" /\ h'[i] # r) =>
            /\ Len(after) = Len(r.poll[1].options) + 1
            /\ after[Len(after)] = [title |-> r.text, people |-> <<>>]

\* A toggle that is written: only the voter's entry in the option of the call
\* changes.
C19_Toggle(i) ==
    LET r == h[i]
        key == str(r.uid)
    IN  (r.pc = "txn_commit" /\ polls' # polls) =>
            /\ DOMAIN polls' = DOMAIN polls
            /\ \A q \in DOMAIN polls \ {r.pid} : polls'[q] = polls[q]
            /\ polls'[r.pid].title = polls[r.pid].title
            /\ polls'[r.pid].admin_uid = polls[r.pid].admin_uid
            /\ Len(polls'[r.pid].options) = Len(polls[r.pid].options)
            /\ \A k \in 1..Len(polls[r.pid].options) :
                  LET before == polls[r.pid].options[k]
                      now == polls'[r.pid].options[k]
                  IN  IF k = r.opt + 1
                      THEN /\ now.title = before.title
                           /\ Without(now.people, key) = Without(before.people, key)
                      ELSE now = before

\* C19: options share no voter state: an appended option starts with an
\* empty people map whatever was toggled before, and a toggle by voter v on
\* option i of poll p changes v's entry in that option and nothing else.
C19_NoSharedVoters ==
    /\ [](default_people = <<>>)
    /\ [][\A i \in Handlers : C19_Append(i) /\ C19_Toggle(i)]_vars

\* Both voters are in the first option of poll 1 and one is in the first
\* option of poll 2; the option appended after that has no voter.
C19_Witness ==
    \E i \in Handlers :
        /\ h[i].pc = "done" /\ h[i].kind = "msg" /\ Sent(h[i], "NEXT_OPTION")
        /\ Len(polls[1].options) = 2
        /\ Len(polls[1].options[1].people) = 2
        /\ polls[1].options[2].people = <<>>
        /\ Len(polls[2].options[1].people) = 1

\* C20: whenever the session of a conversation is OPT(p), poll p is stored and
\* its admin is that conversation.
C20_SessionPollExists ==
    \A c \in Chats : \A p \in PollIds :
        session[c] = OPT(p) =>
            p \in DOMAIN polls /\ polls[p].admin_uid = str(c)

\* The polls that were stored and have been deleted: the datastore handed
\* their ids out and they are not there.
Deleted == {p \in PollIds : p < nextId /\ p \notin DOMAIN polls}

\* C21: a deleted poll is never written back: neither a request that was in
\* flight at the delete (a Poll.toggle transaction or an option append that
\* had read the poll) nor a later one stores it again.
C21_NeverResurrected ==
    [][\A p \in Deleted : p \notin DOMAIN polls']_vars

====
